---- MODULE Spec2Model ----
(***************************************************************************)
(* A model of install_go/download.go: downloadGoVersion (streamed download *)
(* with SHA-256 verification followed by extraction) and getAllGoVersion   *)
(* (cached reference listing, tag normalisation and version sort).         *)
(*                                                                         *)
(* Strings are sequences of atoms.  An atom is a one-character string, or  *)
(* one of the literals "refs/tags/go", "refs/heads/", "beta", "rc",        *)
(* "master" standing for those characters; no pattern the code searches    *)
(* for straddles two atoms, so matching atoms is matching characters.      *)
(***************************************************************************)
EXTENDS Integers, Sequences, FiniteSets, TLC

VARIABLES
    \* ---- downloadGoVersion -------------------------------------------------
    pc,          \* position of the running call of downloadGoVersion
    served,      \* the bytes the archive response body carries in full
    body,        \* resp.Body: the bytes not yet read
    cacheFile,   \* cache/downloads/<target>: NoFile or FileOf(its bytes)
    hashed,      \* the bytes written to h (sha256.New())
    barCount,    \* the bytes counted by bar
    shasum,      \* the body of the .sha256 response
    err,         \* the error the call returned, NoErr while none
    dest,        \* the destination directory tree
    extracted,   \* unpackFn was called in this call
    reqs,        \* requests sent in this call: [archive, sha]
    seen,        \* status codes received in this call: [archive, sha], 0 = none
    atEntry,     \* cacheFile and dest as they were when the call began
    ignored,     \* the calls of this call whose error result was dropped
    \* ---- getAllGoVersion ---------------------------------------------------
    vpc,         \* position of the running call of getAllGoVersion
    versionFile, \* cache/VERSION: NoFile or [content, mtime]
    now,         \* the clock, in hours
    b,           \* the listing document in use, a sequence of lines
    sortVersions,\* the normalized versions, in line order, then sorted
    tmp,         \* normalized version -> tag
    versions,    \* the returned list
    verr,        \* the error returned, NoErr while none
    vlog         \* what the call did: its os.Stat result, requests, ...

dvars == <<pc, served, body, cacheFile, hashed, barCount, shasum, err, dest,
           extracted, reqs, seen, atEntry, ignored>>
hvars == <<atEntry, ignored>>
lvars == <<vpc, versionFile, now, b, sortVersions, tmp, versions, verr, vlog>>
vars == <<dvars, lvars>>

\* ------------------------------------------------------------------ bounds
MaxBody == 2
MaxLines == 3
MaxNow == 2

\* A file of the cache: absent, or present with its bytes.
NoFile == [exists |-> FALSE, data |-> <<>>]
FileOf(d) == [exists |-> TRUE, data |-> d]
NoErr == [kind |-> "none"]

\* ------------------------------------------------------------ byte strings
Bytes == {0, 1}

RECURSIVE SeqsUpTo(_, _)
SeqsUpTo(S, n) ==
    IF n = 0 THEN {<<>>}
    ELSE LET shorter == SeqsUpTo(S, n - 1)
         IN shorter \cup {Append(s, x) : s \in {t \in shorter : Len(t) = n - 1}, x \in S}

\* The archives a server may send.
Archives == SeqsUpTo(Bytes, MaxBody)

Prefix(s, n) == SubSeq(s, 1, n)
Suffix(s, n) == SubSeq(s, n + 1, Len(s))
IsPrefix(p, s) == Len(p) <= Len(s) /\ Prefix(s, Len(p)) = p

\* --------------------------------------------------------------- the digest
\* sha256: a digest of one byte, injective on the byte strings of the model.
RECURSIVE Digest(_)
Digest(s) ==
    IF s = <<>> THEN 1
    ELSE (5 * Digest(Prefix(s, Len(s) - 1)) + s[Len(s)] + 1) % 256

HexDigits == <<"0", "1", "2", "3", "4", "5", "6", "7", "8", "9",
               "a", "b", "c", "d", "e", "f">>
UpperHexDigits == <<"0", "1", "2", "3", "4", "5", "6", "7", "8", "9",
                    "A", "B", "C", "D", "E", "F">>

\* fmt.Sprintf("%x", h.Sum(nil)): two lowercase hex digits per byte.
HexUpper(d) == <<UpperHexDigits[(d \div 16) + 1], UpperHexDigits[(d % 16) + 1]>>
Hex(d) == <<HexDigits[(d \div 16) + 1], HexDigits[(d % 16) + 1]>>


\* ------------------------------------------------------------- environment
\* Status codes a response may carry (net/http hands 101 to the caller as a
\* final response).
Statuses == {101, 200, 299, 300, 404}

\* What the server publishes for archive a: its lowercase hex SHA-256.
PublishedDigest(a) ==
    <<HexDigits[(Digest(a) \div 16) + 1], HexDigits[(Digest(a) % 16) + 1]>>

\* x with its last character replaced by another hex digit.
AlterOne(x) == [x EXCEPT ![Len(x)] = IF @ = "0" THEN "1" ELSE "0"]

\* The bodies a .sha256 response may carry.
Sidecars ==
    {<<>>} \cup UNION {{PublishedDigest(a), AlterOne(PublishedDigest(a)),
                        HexUpper(Digest(a)), PublishedDigest(a) \o <<"\n">>}
                       : a \in Archives}

\* ------------------------------------------------------------ the archive
\* A path is a sequence of segments; <<>> is the destination itself.
Dir(p) == [name |-> p, isDir |-> TRUE, data |-> "-"]
File(p, d) == [name |-> p, isDir |-> FALSE, data |-> d]

\* gzip/tar (or zip) decoding of the cached file: the entries in archive
\* order; the empty byte string is no archive.
Entries(s) ==
    IF Len(s) = 1 /\ s[1] = 0 THEN <<>>
    ELSE IF Len(s) = 1 THEN
        <<Dir(<<"go">>), Dir(<<"go", "bin">>), File(<<"go", "bin", "tool">>, "t"),
          File(<<"go", "README">>, "r")>>
    ELSE IF s[1] = 0 /\ s[2] = 0 THEN <<File(<<"go", "README">>, "r")>>
    ELSE IF s[1] = 0 THEN
        <<File(<<"go", "bin", "tool">>, "t"), File(<<"go", "README">>, "r")>>
    ELSE IF s[2] = 0 THEN <<Dir(<<"go">>), File(<<"go", "README">>, "r2")>>
    ELSE <<Dir(<<"go">>), Dir(<<"go", "go">>), File(<<"go", "go", "x">>, "x"),
           Dir(<<"misc">>), File(<<"misc", "y">>, "y")>>

Decode(f) ==
    IF ~f.exists \/ f.data = <<>> THEN [ok |-> FALSE, entries |-> <<>>]
    ELSE [ok |-> TRUE, entries |-> Entries(f.data)]

\* The destination tree: the directories that exist (<<>> is dest) and the
\* regular files with their content.
NoTree == [dirs |-> {}, files |-> {}]
StaleTree == [dirs |-> {<<>>}, files |-> {[path |-> <<"old">>, data |-> "o"]}]

FilePaths(t) == {f.path : f \in t.files}
Parents(p) == {Prefix(p, n) : n \in 0..(Len(p) - 1)}

\* A strip that takes every leading go segment off the name.
RECURSIVE StripEveryRoot(_)
StripEveryRoot(e) ==
    IF e.name # <<>> /\ e.name[1] = "go" /\ (Len(e.name) >= 2 \/ e.isDir)
    THEN StripEveryRoot([e EXCEPT !.name = Tail(@)]) ELSE e.name

\* strings.HasPrefix(name, "go/"): a directory entry is named "go/".
StripRoot(e) ==
    IF e.name # <<>> /\ e.name[1] = "go" /\ (Len(e.name) >= 2 \/ e.isDir)
    THEN Tail(e.name) ELSE e.name

\* os.MkdirAll(path): fails when the path or a parent is a regular file.
MkdirAll(t, p) ==
    IF (Parents(p) \cup {p}) \cap FilePaths(t) # {}
    THEN [ok |-> FALSE, tree |-> t]
    ELSE [ok |-> TRUE, tree |-> [t EXCEPT !.dirs = @ \cup Parents(p) \cup {p}]]

\* os.OpenFile(path, O_CREATE|O_TRUNC|O_WRONLY) and the copy of the content:
\* fails when the parent directory is missing or the path is a directory.
WriteFile(t, p, d) ==
    IF p = <<>> \/ p \in t.dirs \/ Prefix(p, Len(p) - 1) \notin t.dirs
    THEN [ok |-> FALSE, tree |-> t]
    ELSE [ok |-> TRUE,
          tree |-> [t EXCEPT !.files =
                       {f \in @ : f.path # p} \cup {[path |-> p, data |-> d]}]]

unpack(t, e) ==
    IF e.isDir THEN MkdirAll(t, StripRoot(e))
    ELSE WriteFile(t, StripRoot(e), e.data)

\* unpackTar / unpackZip: entry after entry, stopping at the first error.
RECURSIVE unpackAll(_, _)
unpackAll(t, es) ==
    IF es = <<>> THEN [ok |-> TRUE, tree |-> t]
    ELSE LET r == unpack(t, Head(es))
         IN IF r.ok THEN unpackAll(r.tree, Tail(es)) ELSE r

\* os.RemoveAll(dest), line 110, whose error result is dropped: nothing is
\* left of the tree, or the removal fails and the tree stays; removing a
\* directory that does not exist succeeds.
RemoveAllOutcomes(t) ==
    {[ok |-> TRUE, tree |-> NoTree]}
        \cup (IF t = NoTree THEN {} ELSE {[ok |-> FALSE, tree |-> t]})

unpackFn(t, src) ==
    IF ~Decode(src).ok THEN [ok |-> FALSE, tree |-> t]
    ELSE unpackAll(t, Decode(src).entries)

\* -------------------------------------------------------- downloadGoVersion
NoReqs == [archive |-> 0, sha |-> 0]

\* What the call finds when it begins.
Entry(f, t) == [cacheFile |-> f, dest |-> t]
NoneSeen == [archive |-> 0, sha |-> 0]

Fail(e) == /\ pc' = "failed"
           /\ err' = e

\* A status check that lets 300 to 399 through.
StatusFailsFrom400(st) == st > 399

\* Lines 54, 91 and 210: the status codes the code takes for a failure.
StatusFails(st) == st > 299

\* Lines 42-61: the archive request, its status and its Content-Length.
Request ==
    /\ pc = "idle"
    /\ UNCHANGED <<cacheFile, hashed, barCount, shasum, dest, extracted, hvars, lvars>>
    /\ \/ /\ Fail([kind |-> "newrequest"])
          /\ UNCHANGED <<served, body, reqs, seen>>
       \/ /\ Fail([kind |-> "transport"])
          /\ reqs' = [reqs EXCEPT !.archive = @ + 1]
          /\ UNCHANGED <<served, body, seen>>
       \/ \E st \in Statuses, numeric \in BOOLEAN, a \in Archives :
             /\ reqs' = [reqs EXCEPT !.archive = @ + 1]
             /\ seen' = [seen EXCEPT !.archive = st]
             /\ IF StatusFails(st)
                THEN /\ Fail([kind |-> "status", code |-> st])
                     /\ UNCHANGED <<served, body>>
                ELSE IF ~numeric
                THEN /\ Fail([kind |-> "atoi"])
                     /\ UNCHANGED <<served, body>>
                ELSE /\ pc' = "create"
                     /\ served' = a
                     /\ body' = a
                     /\ UNCHANGED err

\* A removal of the destination at the time the cache file is created.
CreateCacheFileRemovesDest ==
    /\ pc = "create"
    /\ dest' = NoTree
    /\ UNCHANGED <<served, body, shasum, extracted, reqs, seen, hvars, lvars>>
    /\ \/ /\ cacheFile' = FileOf(<<>>)
          /\ hashed' = <<>>
          /\ barCount' = 0
          /\ pc' = "copy"
          /\ UNCHANGED err
       \/ \E left \in {NoFile, cacheFile} :
             /\ cacheFile' = left
             /\ Fail([kind |-> "create"])
             /\ UNCHANGED <<hashed, barCount>>

\* Lines 63-77: the old cache file is removed and a new one created; the
\* digest and the progress counter start empty.
CreateCacheFile ==
    /\ pc = "create"
    /\ UNCHANGED <<served, body, shasum, dest, extracted, reqs, seen, hvars, lvars>>
    /\ \/ /\ cacheFile' = FileOf(<<>>)
          /\ hashed' = <<>>
          /\ barCount' = 0
          /\ pc' = "copy"
          /\ UNCHANGED err
       \/ \E left \in {NoFile, cacheFile} :
             /\ cacheFile' = left
             /\ Fail([kind |-> "create"])
             /\ UNCHANGED <<hashed, barCount>>

\* A fan-out that feeds the digest and the counter before the file.
MultiWriterHashFirst(f, h, n, p, k) ==
    [ok |-> k = Len(p), file |-> FileOf(f.data \o Prefix(p, k)), h |-> h \o p,
     bar |-> n + Len(p)]

\* io.MultiWriter(targetFile, h, bar).Write(p), the file accepting k bytes:
\* the first writer that fails or is short ends the write.
MultiWriterWrite(f, h, n, p, k) ==
    IF k < Len(p)
    THEN [ok |-> FALSE, file |-> FileOf(f.data \o Prefix(p, k)), h |-> h, bar |-> n]
    ELSE [ok |-> TRUE, file |-> FileOf(f.data \o p), h |-> h \o p, bar |-> n + Len(p)]

\* Line 78, one round of io.Copy: a read of n bytes and their write.
CopyChunk ==
    /\ pc = "copy"
    /\ body # <<>>
    /\ UNCHANGED <<served, shasum, dest, extracted, reqs, seen, hvars, lvars>>
    /\ \E n \in 1..Len(body), k \in 0..Len(body) :
          /\ k <= n
          /\ LET w == MultiWriterWrite(cacheFile, hashed, barCount, Prefix(body, n), k)
             IN /\ cacheFile' = w.file
                /\ hashed' = w.h
                /\ barCount' = w.bar
                /\ body' = Suffix(body, n)
                /\ IF w.ok THEN UNCHANGED <<pc, err>>
                   ELSE Fail([kind |-> "write"])

\* Line 78: a read that fails with an error other than io.EOF.
CopyReadErr ==
    /\ pc = "copy"
    /\ Fail([kind |-> "read"])
    /\ UNCHANGED <<served, body, cacheFile, hashed, barCount, shasum, dest,
                   extracted, reqs, seen, hvars, lvars>>

\* Lines 78-83: io.EOF ends the copy.
CopyEOF ==
    /\ pc = "copy"
    /\ body = <<>>
    /\ pc' = "sidecar"
    /\ UNCHANGED <<served, body, cacheFile, hashed, barCount, shasum, err, dest,
                   extracted, reqs, seen, hvars, lvars>>

\* Lines 85-98: the request for the .sha256 document.
GetSha ==
    /\ pc = "sidecar"
    /\ reqs' = [reqs EXCEPT !.sha = @ + 1]
    /\ UNCHANGED <<served, body, cacheFile, hashed, barCount, dest, extracted, hvars, lvars>>
    /\ \/ /\ Fail([kind |-> "shatransport"])
          /\ UNCHANGED <<shasum, seen>>
       \/ \E st \in Statuses :
             /\ seen' = [seen EXCEPT !.sha = st]
             /\ IF StatusFails(st)
                THEN /\ Fail([kind |-> "shastatus", code |-> st])
                     /\ UNCHANGED shasum
                ELSE \/ /\ Fail([kind |-> "sharead"])
                        /\ UNCHANGED shasum
                     \/ \E s \in Sidecars :
                           /\ shasum' = s
                           /\ pc' = "verify"
                           /\ UNCHANGED err

\* Line 100: the hex form of the digest.
Sum(h) == Hex(Digest(h))

\* A comparison by strings.HasPrefix(sum, shasum).
MatchesAsPrefix(sum, sha) == IsPrefix(sha, sum)

\* Line 101: the comparison that admits the archive.
Matches(sum, sha) == sum = sha

\* A verification that deletes the cached file on a mismatch.
VerifyRemovesFile ==
    /\ pc = "verify"
    /\ UNCHANGED <<served, body, hashed, barCount, shasum, dest, extracted, reqs,
                   seen, hvars, lvars>>
    /\ IF Matches(Sum(hashed), shasum)
       THEN /\ pc' = "unpack"
            /\ UNCHANGED <<err, cacheFile>>
       ELSE /\ Fail([kind |-> "mismatch", sum |-> Sum(hashed), shasum |-> shasum])
            /\ cacheFile' = NoFile

\* Lines 100-103.
Verify ==
    /\ pc = "verify"
    /\ UNCHANGED <<served, body, cacheFile, hashed, barCount, shasum, dest,
                   extracted, reqs, seen, hvars, lvars>>
    /\ IF Matches(Sum(hashed), shasum)
       THEN /\ pc' = "unpack"
            /\ UNCHANGED err
       ELSE Fail([kind |-> "mismatch", sum |-> Sum(hashed), shasum |-> shasum])

\* Lines 105-116: the destination is removed and the archive unpacked.
Extract ==
    /\ pc = "unpack"
    /\ extracted' = TRUE
    /\ \E removed \in RemoveAllOutcomes(dest) :
          LET r == unpackFn(removed.tree, cacheFile)
          IN /\ dest' = r.tree
             /\ ignored' = IF removed.ok THEN ignored ELSE ignored \cup {"RemoveAll"}
             /\ IF r.ok THEN pc' = "done" /\ UNCHANGED err
                ELSE Fail([kind |-> "unpack"])
    /\ UNCHANGED <<served, body, cacheFile, hashed, barCount, shasum, reqs, seen,
                   atEntry, lvars>>

\* The call has returned; the next call starts afresh.
Return ==
    /\ pc \in {"done", "failed"}
    /\ pc' = "idle"
    /\ served' = <<>>
    /\ body' = <<>>
    /\ hashed' = <<>>
    /\ barCount' = 0
    /\ shasum' = <<>>
    /\ err' = NoErr
    /\ extracted' = FALSE
    /\ reqs' = NoReqs
    /\ seen' = NoneSeen
    /\ atEntry' = Entry(cacheFile, dest)
    /\ ignored' = {}
    /\ UNCHANGED <<cacheFile, dest, lvars>>



\* ------------------------------------------------------------------ strings
\* strings.HasPrefix(s, pat)
HasPrefix(s, pat) == Len(s) >= Len(pat) /\ SubSeq(s, 1, Len(pat)) = pat

\* strings.Contains(s, pat)
Contains(s, pat) == \E i \in 0..Len(s) : HasPrefix(Suffix(s, i), pat)

\* strings.Replace(s, old, new, -1), old not empty: every occurrence, left
\* to right, without overlap.
RECURSIVE ReplaceAll(_, _, _)
ReplaceAll(s, old, new) ==
    IF s = <<>> THEN <<>>
    ELSE IF HasPrefix(s, old) THEN new \o ReplaceAll(Suffix(s, Len(old)), old, new)
    ELSE <<Head(s)>> \o ReplaceAll(Tail(s), old, new)

\* strings.Split(s, sep) for a separator of one atom.
RECURSIVE Split(_, _)
Split(s, sep) ==
    IF \A i \in 1..Len(s) : s[i] # sep THEN <<s>>
    ELSE LET i == CHOOSE j \in 1..Len(s) : s[j] = sep /\ \A k \in 1..(j - 1) : s[k] # sep
         IN <<Prefix(s, i - 1)>> \o Split(Suffix(s, i), sep)

\* strings.SplitN(s, sep, n), n >= 1: at most n parts, the last unsplit.
RECURSIVE SplitN(_, _, _)
SplitN(s, sep, n) ==
    IF n = 1 \/ \A i \in 1..Len(s) : s[i] # sep THEN <<s>>
    ELSE LET i == CHOOSE j \in 1..Len(s) : s[j] = sep /\ \A k \in 1..(j - 1) : s[k] # sep
         IN <<Prefix(s, i - 1)>> \o SplitN(Suffix(s, i), sep, n - 1)

\* strings.Fields(s): the maximal runs of atoms that are not white space.
Space == {" ", "\t"}
RECURSIVE Fields(_)
Fields(s) ==
    IF s = <<>> THEN <<>>
    ELSE IF Head(s) \in Space THEN Fields(Tail(s))
    ELSE LET n == CHOOSE j \in 1..Len(s) :
                     /\ \A k \in 1..j : s[k] \notin Space
                     /\ (j = Len(s) \/ s[j + 1] \in Space)
         IN <<Prefix(s, n)>> \o Fields(Suffix(s, n))

Digits == <<"0", "1", "2", "3", "4", "5", "6", "7", "8", "9">>
IsDigit(c) == \E d \in 1..10 : Digits[d] = c
DigitVal(c) == (CHOOSE d \in 1..10 : Digits[d] = c) - 1

\* ------------------------------------------------------------------- semver
\* blang/semver as lines 289-291 use it: Make, whose error is dropped, and GE.
ZeroVersion == [major |-> 0, minor |-> 0, patch |-> 0, pre |-> <<>>]

\* containsOnly(s, numbers) and strconv.ParseUint succeed, no leading zero.
IsNumber(s) ==
    /\ s # <<>>
    /\ \A i \in 1..Len(s) : IsDigit(s[i])
    /\ ~(Len(s) > 1 /\ s[1] = "0")

RECURSIVE NumVal(_)
NumVal(s) == IF s = <<>> THEN 0 ELSE 10 * NumVal(Prefix(s, Len(s) - 1)) + DigitVal(s[Len(s)])

AlphaAtoms == {"beta", "rc", "h", "x", "master", "-"}
IsAlphanum(s) == \A i \in 1..Len(s) : IsDigit(s[i]) \/ s[i] \in AlphaAtoms

\* NewPRVersion accepts the identifier.
IsPRVersion(s) ==
    /\ s # <<>>
    /\ IsAlphanum(s)
    /\ (\A i \in 1..Len(s) : IsDigit(s[i])) => IsNumber(s)

\* Everything before the first '-' of the patch part, and the identifiers
\* after it.
PatchPart(s) == IF Contains(s, <<"-">>) THEN SplitN(s, "-", 2)[1] ELSE s
PrePart(s) == IF Contains(s, <<"-">>) THEN Split(SplitN(s, "-", 2)[2], ".") ELSE <<>>

\* semver.Parse succeeds on s.
Parses(s) ==
    LET parts == SplitN(s, ".", 3)
    IN /\ Len(parts) = 3
       /\ IsNumber(parts[1])
       /\ IsNumber(parts[2])
       /\ IsNumber(PatchPart(parts[3]))
       /\ \A i \in 1..Len(PrePart(parts[3])) : IsPRVersion(PrePart(parts[3])[i])

\* v, _ := semver.Make(s): the zero Version when s does not parse.
Make(s) ==
    IF ~Parses(s) THEN ZeroVersion
    ELSE LET parts == SplitN(s, ".", 3)
         IN [major |-> NumVal(parts[1]), minor |-> NumVal(parts[2]),
             patch |-> NumVal(PatchPart(parts[3])), pre |-> PrePart(parts[3])]

\* The order of the characters in an identifier: digits before letters.
AtomRank(c) ==
    IF IsDigit(c) THEN DigitVal(c)
    ELSE IF c = "-" THEN 0 - 2
    ELSE IF c = "." THEN 0 - 1
    ELSE IF c = "beta" THEN 10
    ELSE IF c = "h" THEN 11
    ELSE IF c = "master" THEN 12
    ELSE IF c = "rc" THEN 13
    ELSE 14

\* The comparison of two numeric sections.
CompareNum(x, y) == IF x < y THEN 0 - 1 ELSE IF x > y THEN 1 ELSE 0

\* String comparison of two identifiers.
RECURSIVE CompareStr(_, _)
CompareStr(x, y) ==
    IF x = <<>> /\ y = <<>> THEN 0
    ELSE IF x = <<>> THEN 0 - 1
    ELSE IF y = <<>> THEN 1
    ELSE IF AtomRank(Head(x)) # AtomRank(Head(y))
    THEN CompareNum(AtomRank(Head(x)), AtomRank(Head(y)))
    ELSE CompareStr(Tail(x), Tail(y))

\* PRVersion.Compare: numbers by value and below text, text as strings.
ComparePR(x, y) ==
    IF IsNumber(x) /\ IsNumber(y) THEN CompareNum(NumVal(x), NumVal(y))
    ELSE IF IsNumber(x) THEN 0 - 1
    ELSE IF IsNumber(y) THEN 1
    ELSE CompareStr(x, y)

RECURSIVE ComparePre(_, _)
ComparePre(p, q) ==
    IF p = <<>> /\ q = <<>> THEN 0
    ELSE IF p = <<>> THEN 0 - 1
    ELSE IF q = <<>> THEN 1
    ELSE IF ComparePR(Head(p), Head(q)) # 0 THEN ComparePR(Head(p), Head(q))
    ELSE ComparePre(Tail(p), Tail(q))

\* Version.Compare
Compare(v, o) ==
    IF v.major # o.major THEN CompareNum(v.major, o.major)
    ELSE IF v.minor # o.minor THEN CompareNum(v.minor, o.minor)
    ELSE IF v.patch # o.patch THEN CompareNum(v.patch, o.patch)
    ELSE IF v.pre = <<>> /\ o.pre = <<>> THEN 0
    ELSE IF v.pre = <<>> THEN 1
    ELSE IF o.pre = <<>> THEN 0 - 1
    ELSE ComparePre(v.pre, o.pre)

\* Version.GE
GE(v, o) == Compare(v, o) >= 0

\* ---------------------------------------------------------- getAllGoVersion
FreshHours == 72

NoVersionFile == [exists |-> FALSE, data |-> <<>>, mtime |-> 0]
EmptyMap == [k \in {} |-> <<>>]
NoLog == [stat |-> "none", age |-> 0, read |-> FALSE, reqs |-> 0, status |-> 0,
          before |-> NoVersionFile, doc |-> <<>>]

Marker == <<"refs/tags/go">>

\* Lines 262-280: the normalized form of a tag.
Normalize(version) ==
    LET sections == Split(version, ".")
    IN IF Len(sections) = 1 THEN version \o <<".", "0", ".", "0">>
       ELSE IF Len(sections) = 2 THEN
            IF Contains(version, <<"beta">>)
            THEN ReplaceAll(version, <<"beta">>, <<".", "0", "-", "beta">>)
            ELSE IF Contains(version, <<"rc">>)
            THEN ReplaceAll(version, <<"rc">>, <<".", "0", "-", "rc">>)
            ELSE version \o <<".", "0">>
       ELSE IF Len(sections) = 3 THEN
            IF Contains(version, <<"rc">>)
            THEN ReplaceAll(version, <<"rc">>, <<"-", "rc">>)
            ELSE IF Contains(version, <<"beta">>)
            THEN ReplaceAll(version, <<"beta">>, <<"-", "beta">>)
            ELSE version
       ELSE version

\* Lines 257-259: the line is retained.
Retained(line) == Contains(line, Marker) /\ Len(Fields(line)) = 2

\* Lines 260-261: oldVersion, the tag of a retained line.
TagOf(line) == ReplaceAll(Fields(line)[2], Marker, <<>>)

\* Line 282: tmp[version] = oldVersion.
Put(m, k, v) == [x \in DOMAIN m \cup {k} |-> IF x = k THEN v ELSE m[x]]

\* Lines 254-286: the scan of the lines, from sortVersions sv and map m.
RECURSIVE Scan(_, _, _)
Scan(lines, sv, m) ==
    IF lines = <<>> THEN [sv |-> sv, tmp |-> m]
    ELSE IF Retained(Head(lines))
    THEN Scan(Tail(lines), Append(sv, Normalize(TagOf(Head(lines)))),
              Put(m, Normalize(TagOf(Head(lines))), TagOf(Head(lines))))
    ELSE Scan(Tail(lines), sv, m)

\* A less function that compares the normalized versions as strings.
LessTextual(x, y) == CompareStr(x, y) >= 0

\* Lines 288-292: the less function handed to sort.SliceStable.
Less(x, y) == GE(Make(x), Make(y))

Swap(s, i, j) == [s EXCEPT ![i] = s[j], ![j] = s[i]]

\* sort.SliceStable on at most 20 elements is one insertion sort: element j
\* moves down while less(j, j-1).
RECURSIVE Sink(_, _)
Sink(s, j) ==
    IF j > 1 /\ Less(s[j], s[j - 1]) THEN Sink(Swap(s, j, j - 1), j - 1) ELSE s

RECURSIVE InsertionSort(_, _)
InsertionSort(s, i) == IF i > Len(s) THEN s ELSE InsertionSort(Sink(s, i), i + 1)

SliceStable(s) == InsertionSort(s, 2)

\* The tags and lines of the listings.
V1 == <<"1">>
V1_0 == <<"1", ".", "0">>
V1_0_0 == <<"1", ".", "0", ".", "0">>
V1_2_3 == <<"1", ".", "2", ".", "3">>
V1_10_0 == <<"1", ".", "1", "0", ".", "0">>
V1_2_10 == <<"1", ".", "2", ".", "1", "0">>
V1_2beta1 == <<"1", ".", "2", "beta", "1">>
V1_2rc1 == <<"1", ".", "2", "rc", "1">>
V1_2_3rc1 == <<"1", ".", "2", ".", "3", "rc", "1">>
V1beta1 == <<"1", "beta", "1">>
V1rc1 == <<"1", "rc", "1">>
Tags == {V1, V1_0, V1_0_0, V1_2_3, V1_10_0, V1_2_10, V1_2beta1, V1_2rc1,
         V1_2_3rc1, V1beta1, V1rc1}

TagLine(tag) == <<"h", " ", "refs/tags/go">> \o tag
HeadLine == <<"h", " ", "refs/heads/", "master">>
ThreeFieldLine == <<"h", " ", "refs/tags/go", "1", ".", "4", " ", "x">>
MarkerFirstLine == <<"refs/tags/go", "1", ".", "5", " ", "h">>
Lines == {TagLine(tag) : tag \in Tags} \cup {HeadLine, ThreeFieldLine, MarkerFirstLine}

\* The listings lines 251-299 are applied to.
Listings == SeqsUpTo(Lines, MaxLines)

\* The listings a server sends in the runs of the cache protocol.
Docs == {<<>>, <<TagLine(V1_2_3), HeadLine>>, <<TagLine(V1_2_3), TagLine(V1_10_0)>>}

VFail(e) == /\ vpc' = "failed"
            /\ verr' = e

\* An age test that takes a file of exactly 72 hours for fresh.
IsFreshInclusive(age) == age <= FreshHours

\* Line 238: time.Now().Sub(fi.ModTime()) < time.Hour*72
IsFresh(age) == age < FreshHours

\* Lines 231-232 and 238: os.Stat and the age test.  A Stat error other
\* than "not exist" leaves fi nil, and fi.ModTime() panics.
Stat ==
    /\ vpc = "idle"
    /\ UNCHANGED <<versionFile, now, b, sortVersions, tmp, versions, dvars>>
    /\ \/ /\ vpc' = "crashed"
          /\ verr' = [kind |-> "panic"]
          /\ vlog' = [vlog EXCEPT !.stat = "error", !.before = versionFile]
       \/ /\ ~versionFile.exists
          /\ vpc' = "fetch"
          /\ vlog' = [vlog EXCEPT !.stat = "notexist", !.before = versionFile]
          /\ UNCHANGED verr
       \/ /\ versionFile.exists
          /\ vpc' = IF IsFresh(now - versionFile.mtime) THEN "read" ELSE "fetch"
          /\ vlog' = [vlog EXCEPT !.stat = "ok", !.age = now - versionFile.mtime,
                                  !.before = versionFile]
          /\ UNCHANGED verr

\* Lines 239-242: the fresh cache file is read.
ReadCache ==
    /\ vpc = "read"
    /\ vlog' = [vlog EXCEPT !.read = TRUE]
    /\ UNCHANGED <<versionFile, now, sortVersions, tmp, versions, dvars>>
    /\ \/ /\ b' = versionFile.data
          /\ vpc' = "scan"
          /\ UNCHANGED verr
       \/ /\ VFail([kind |-> "cacheread"])
          /\ UNCHANGED b

\* A fetch that truncates the cache file before it looks at the response.
getRemoteVersionTruncatesFirst ==
    /\ vpc = "fetch"
    /\ UNCHANGED <<now, sortVersions, tmp, versions, dvars>>
    /\ \/ /\ VFail([kind |-> "transport"])
          /\ vlog' = [vlog EXCEPT !.reqs = @ + 1]
          /\ versionFile' = [exists |-> TRUE, data |-> <<>>, mtime |-> now]
          /\ UNCHANGED b
       \/ \E st \in Statuses, doc \in Docs :
             /\ vlog' = [vlog EXCEPT !.reqs = @ + 1, !.status = st, !.doc = doc]
             /\ IF StatusFails(st)
                THEN /\ VFail([kind |-> "status", code |-> st])
                     /\ versionFile' = [exists |-> TRUE, data |-> <<>>, mtime |-> now]
                     /\ UNCHANGED b
                ELSE /\ versionFile' = [exists |-> TRUE, data |-> doc, mtime |-> now]
                     /\ b' = doc
                     /\ vpc' = "scan"
                     /\ UNCHANGED verr

\* Lines 199-224, called at 233 and 244: the listing is fetched and written
\* to the cache file.
getRemoteVersion ==
    /\ vpc = "fetch"
    /\ UNCHANGED <<now, sortVersions, tmp, versions, dvars>>
    /\ \/ /\ VFail([kind |-> "transport"])
          /\ vlog' = [vlog EXCEPT !.reqs = @ + 1]
          /\ UNCHANGED <<versionFile, b>>
       \/ \E st \in Statuses, doc \in Docs :
             /\ vlog' = [vlog EXCEPT !.reqs = @ + 1, !.status = st, !.doc = doc]
             /\ IF StatusFails(st)
                THEN /\ VFail([kind |-> "status", code |-> st])
                     /\ UNCHANGED <<versionFile, b>>
                ELSE \/ /\ VFail([kind |-> "readall"])
                        /\ UNCHANGED <<versionFile, b>>
                     \/ \E left \in {versionFile,
                                     [exists |-> TRUE, data |-> <<>>, mtime |-> now]} :
                           /\ VFail([kind |-> "cachewrite"])
                           /\ versionFile' = left
                           /\ UNCHANGED b
                     \/ /\ versionFile' = [exists |-> TRUE, data |-> doc, mtime |-> now]
                        /\ b' = doc
                        /\ vpc' = "scan"
                        /\ UNCHANGED verr

\* Lines 251-286.
ScanLines ==
    /\ vpc = "scan"
    /\ sortVersions' = Scan(b, <<>>, EmptyMap).sv
    /\ tmp' = Scan(b, <<>>, EmptyMap).tmp
    /\ vpc' = "sort"
    /\ UNCHANGED <<versionFile, now, b, versions, verr, vlog, dvars>>

\* Lines 288-292.
SortVersions ==
    /\ vpc = "sort"
    /\ sortVersions' = SliceStable(sortVersions)
    /\ vpc' = "collect"
    /\ UNCHANGED <<versionFile, now, b, tmp, versions, verr, vlog, dvars>>

\* Lines 294-299.
Collect ==
    /\ vpc = "collect"
    /\ versions' = [i \in 1..Len(sortVersions) |-> tmp[sortVersions[i]]]
    /\ vpc' = "returned"
    /\ UNCHANGED <<versionFile, now, b, sortVersions, tmp, verr, vlog, dvars>>

\* The call has ended (a crashed process is started again).
VReturn ==
    /\ vpc \in {"returned", "failed", "crashed"}
    /\ vpc' = "idle"
    /\ b' = <<>>
    /\ sortVersions' = <<>>
    /\ tmp' = EmptyMap
    /\ versions' = <<>>
    /\ verr' = NoErr
    /\ vlog' = NoLog
    /\ UNCHANGED <<versionFile, now, dvars>>

\* Time passes between calls.
Tick ==
    /\ vpc = "idle"
    /\ now < MaxNow
    /\ now' = now + 1
    /\ UNCHANGED <<vpc, versionFile, b, sortVersions, tmp, versions, verr, vlog, dvars>>

DownloadIdle ==
    /\ pc = "idle"
    /\ served = <<>>
    /\ body = <<>>
    /\ cacheFile = NoFile
    /\ hashed = <<>>
    /\ barCount = 0
    /\ shasum = <<>>
    /\ err = NoErr
    /\ dest = NoTree
    /\ extracted = FALSE
    /\ reqs = NoReqs
    /\ seen = NoneSeen
    /\ atEntry = Entry(NoFile, NoTree)
    /\ ignored = {}

\* The cache file at the start: absent, or written at some earlier time.
ListInit ==
    /\ DownloadIdle
    /\ vpc = "idle"
    /\ versionFile \in {NoVersionFile} \cup
          {[exists |-> TRUE, data |-> d, mtime |-> m] :
              d \in Docs,
              m \in {0 - (FreshHours + 1), 0 - FreshHours, 0 - (FreshHours - 1), 0, 1}}
    /\ now = 0
    /\ b = <<>>
    /\ sortVersions = <<>>
    /\ tmp = EmptyMap
    /\ versions = <<>>
    /\ verr = NoErr
    /\ vlog = NoLog

ListNext ==
    \/ Stat
    \/ ReadCache
    \/ getRemoteVersion
    \/ ScanLines
    \/ SortVersions
    \/ Collect
    \/ VReturn
    \/ Tick

SpecList == ListInit /\ [][ListNext]_vars

\* Lines 251-299 on every listing: b holds the document read or fetched.
SortInit ==
    /\ DownloadIdle
    /\ vpc = "scan"
    /\ versionFile = NoVersionFile
    /\ now = 0
    /\ b \in Listings
    /\ sortVersions = <<>>
    /\ tmp = EmptyMap
    /\ versions = <<>>
    /\ verr = NoErr
    /\ vlog = NoLog

SortNext ==
    \/ ScanLines
    \/ SortVersions
    \/ Collect

SpecSort == SortInit /\ [][SortNext]_vars

ListIdle ==
    /\ vpc = "idle"
    /\ versionFile = NoVersionFile
    /\ now = 0
    /\ b = <<>>
    /\ sortVersions = <<>>
    /\ tmp = EmptyMap
    /\ versions = <<>>
    /\ verr = NoErr
    /\ vlog = NoLog

DownloadInit ==
    /\ pc = "idle"
    /\ served = <<>>
    /\ body = <<>>
    /\ cacheFile \in {NoFile, FileOf(<<1>>)}
    /\ hashed = <<>>
    /\ barCount = 0
    /\ shasum = <<>>
    /\ err = NoErr
    /\ dest \in {NoTree, StaleTree}
    /\ extracted = FALSE
    /\ reqs = NoReqs
    /\ seen = NoneSeen
    /\ atEntry = Entry(cacheFile, dest)
    /\ ignored = {}
    /\ ListIdle

DownloadNext ==
    \/ Request
    \/ CreateCacheFile
    \/ CopyChunk
    \/ CopyReadErr
    \/ CopyEOF
    \/ GetSha
    \/ Verify
    \/ Extract
    \/ Return

SpecDownload == DownloadInit /\ [][DownloadNext]_vars

\* ===================================================================== C1-C5
\* The call has read the .sha256 body (line 95 returned without error).
ShaRead ==
    \/ pc \in {"verify", "unpack", "done"}
    \/ pc = "failed" /\ err.kind \in {"mismatch", "unpack"}

Is2xx(st) == st >= 200 /\ st <= 299

\* C1: extraction of the archive starts only if the hex digest of the bytes
\* streamed equals the body of the .sha256 document; an archive that fails
\* the comparison is never extracted.
C1_ExtractOnlyVerified ==
    (extracted \/ pc = "unpack") => shasum = PublishedDigest(hashed)

C1_Witness ==
    /\ extracted
    /\ pc = "done"
    /\ served # <<>>
    /\ shasum = PublishedDigest(served)

\* C2: when the .sha256 body differs from the computed digest the call fails
\* with the mismatch error that carries both values, nothing is extracted,
\* and the cached file still holds the bytes streamed.
C2_MismatchKeepsFile ==
    (ShaRead /\ pc # "verify" /\ shasum # PublishedDigest(hashed)) =>
        /\ pc = "failed"
        /\ err = [kind |-> "mismatch", sum |-> PublishedDigest(hashed),
                  shasum |-> shasum]
        /\ ~extracted
        /\ cacheFile = FileOf(served)

C2_Witness ==
    /\ pc = "failed"
    /\ err.kind = "mismatch"
    /\ served # <<>>
    /\ shasum = AlterOne(PublishedDigest(served))
    /\ cacheFile = FileOf(served)

\* The .sha256 request was sent and failed in transport.
ShaTransportFailed == reqs.sha > 0 /\ seen.sha = 0

\* C3 as stated: a .sha256 request that fails in transport or returns a
\* status outside 200..299 makes the call fail without extraction.
C3_Original ==
    (pc \in {"done", "failed"} /\ (ShaTransportFailed \/ (seen.sha # 0 /\ ~Is2xx(seen.sha))))
        => (pc = "failed" /\ ~extracted)

\* C3, amended: a .sha256 request that fails in transport (before the
\* response or while its body is read) or returns a status above 299, after
\* the archive streamed in full, makes the call fail at once; nothing is
\* extracted.
C3_SidecarFailureIsFatal ==
    (ShaTransportFailed \/ seen.sha > 299 \/ err.kind = "sharead") =>
        /\ pc = "failed"
        /\ err.kind \in {"shatransport", "shastatus", "sharead"}
        /\ ~extracted
        /\ cacheFile = FileOf(served)

C3_Witness ==
    /\ pc = "failed"
    /\ err.kind = "shastatus"
    /\ seen.sha = 300
    /\ served # <<>>
    /\ cacheFile = FileOf(served)

\* C4: with a 2xx archive response streamed to its end and a 2xx .sha256
\* response whose body is the lowercase hex digest of the archive bytes, the
\* digest the call computed is the digest of the archive bytes and the call
\* does not fail with a mismatch.
C4_CorrectDigestPasses ==
    (ShaRead /\ pc # "verify" /\ Is2xx(seen.archive) /\ Is2xx(seen.sha)
       /\ shasum = PublishedDigest(served)) =>
        /\ Sum(hashed) = PublishedDigest(served)
        /\ err.kind # "mismatch"
        /\ pc \in {"unpack", "done"} \/ err.kind = "unpack"

C4_Witness ==
    /\ pc = "unpack"
    /\ Len(served) = MaxBody
    /\ seen = [archive |-> 200, sha |-> 200]
    /\ shasum = PublishedDigest(served)
    /\ shasum # HexUpper(Digest(served))

\* The streaming copy is running or has ended.
Copying == pc = "copy" \/ (pc = "failed" /\ err.kind \in {"write", "read"})

\* C5 as stated: at every point of the copy, a failed or short write
\* included, the file, the digest and the counter hold the same bytes.
C5_Original ==
    Copying => (cacheFile.data = hashed /\ barCount = Len(cacheFile.data))

\* C5, amended: while no write has failed, the file, the digest and the
\* counter hold the same bytes, which are the bytes read so far, in order,
\* however the reads are cut.  After a failed or short write the digest and
\* the counter hold the bytes of the completed writes and the file holds
\* those followed by the part of the last chunk it accepted.
C5_FanOut ==
    Copying =>
        /\ barCount = Len(hashed)
        /\ IsPrefix(hashed, cacheFile.data)
        /\ IsPrefix(cacheFile.data, served)
        /\ err.kind # "write" =>
              (cacheFile.data = hashed /\ hashed \o body = served)

C5_Witness ==
    /\ pc = "copy"
    /\ hashed # <<>>
    /\ body # <<>>
    /\ cacheFile.data = hashed


\* ==================================================================== C6-C10
\* The call has decided where the listing comes from and has loaded it, or
\* has ended.
Loaded == vpc \in {"scan", "sort", "collect", "returned", "failed", "crashed"}

\* The age of the cache file the call found, in hours.
AgeBefore == now - vlog.before.mtime

\* C6: the call reads the cached listing, with no remote request, exactly
\* when os.Stat found the cache file and its age is below 72 hours; when the
\* file is missing or its age is 72 hours or more the call sends one remote
\* request and, unless that fails, the cache file holds the fetched document
\* before the document is used.
C6_FreshnessDecides ==
    Loaded =>
        /\ (vlog.read /\ vlog.reqs = 0) <=>
              (vlog.stat = "ok" /\ vlog.before.exists /\ AgeBefore < 72)
        /\ (vlog.stat = "notexist" \/ (vlog.stat = "ok" /\ AgeBefore >= 72)) =>
              /\ ~vlog.read
              /\ vlog.reqs = 1
              /\ vpc # "failed" =>
                    /\ versionFile = [exists |-> TRUE, data |-> vlog.doc, mtime |-> now]
                    /\ b = vlog.doc

C6_Witness ==
    /\ vpc = "returned"
    /\ vlog.stat = "ok"
    /\ AgeBefore = 72
    /\ vlog.reqs = 1
    /\ vlog.doc # vlog.before.data
    /\ versionFile.data = vlog.doc

\* The remote request was sent and failed in transport.
FetchTransportFailed == vlog.reqs > 0 /\ vlog.status = 0

\* C7 as stated: a fetch that fails in transport or returns a status outside
\* 200..299 makes the call fail, return no versions and leave the cache file.
C7_Original ==
    (Loaded /\ (FetchTransportFailed \/ (vlog.status # 0 /\ ~Is2xx(vlog.status)))) =>
        (vpc = "failed" /\ versions = <<>> /\ versionFile = vlog.before)

\* C7, amended: a fetch that fails in transport (before the response or
\* while its body is read) or returns a status above 299 makes the call fail
\* with that error, return no versions and leave the cache file, content and
\* modification time, as it was.
C7_FailedFetchKeepsCache ==
    (FetchTransportFailed \/ vlog.status > 299 \/ verr.kind = "readall") =>
        /\ vpc = "failed"
        /\ verr.kind \in {"transport", "status", "readall"}
        /\ versions = <<>>
        /\ versionFile = vlog.before

C7_Witness ==
    /\ vpc = "failed"
    /\ verr.kind = "status"
    /\ vlog.status = 404
    /\ vlog.before.exists
    /\ vlog.before.data # <<>>
    /\ versionFile = vlog.before

\* C8: every call ends with a list, or with a network, cache-read or
\* cache-write error, whatever the state of the cache file; none crashes.
C8_ContractOutcome ==
    (vpc \in {"returned", "failed", "crashed"}) =>
        \/ vpc = "returned" /\ verr = NoErr
        \/ /\ vpc = "failed"
           /\ verr.kind \in {"transport", "status", "readall", "cacheread", "cachewrite"}

\* The tags of the retained lines of a listing, in line order.
RECURSIVE RetainedTags(_)
RetainedTags(lines) ==
    IF lines = <<>> THEN <<>>
    ELSE IF Retained(Head(lines))
    THEN <<TagOf(Head(lines))>> \o RetainedTags(Tail(lines))
    ELSE RetainedTags(Tail(lines))

Count(s, x) == Cardinality({i \in 1..Len(s) : s[i] = x})
SameBag(s, u) ==
    /\ Len(s) = Len(u)
    /\ \A i \in 1..Len(s) : Count(s, s[i]) = Count(u, s[i])

\* C9: the returned list is a permutation of the tags of the retained lines,
\* also when two tags have the same normalized form.
C9_Permutation ==
    vpc = "returned" => SameBag(versions, RetainedTags(b))

\* C10: adjacent returned tags are in descending order of their normalized
\* versions, sections compared as numbers; the tags 1.2.3, 1.10.0 and 1.2.10,
\* in any order in the listing, come out as 1.10.0, 1.2.10, 1.2.3.
C10_Descending ==
    vpc = "returned" =>
        /\ \A i \in 1..(Len(versions) - 1) :
              Compare(Make(Normalize(versions[i])), Make(Normalize(versions[i + 1]))) >= 0
        /\ SameBag(RetainedTags(b), <<V1_2_3, V1_10_0, V1_2_10>>) =>
              versions = <<V1_10_0, V1_2_10, V1_2_3>>

C10_Witness ==
    /\ vpc = "returned"
    /\ b = <<TagLine(V1_2_3), TagLine(V1_10_0), TagLine(V1_2_10)>>
    /\ versions = <<V1_10_0, V1_2_10, V1_2_3>>

\* ------------------------------------------------------------------ C11
\* A tag of one, two or three dot-separated numeric sections, the last one
\* optionally followed by beta or rc and a number.
IsVersionTag(tag) ==
    LET parts == Split(tag, ".")
        last == parts[Len(parts)]
    IN /\ Len(parts) \in 1..3
       /\ \A i \in 1..(Len(parts) - 1) : IsNumber(parts[i])
       /\ \/ IsNumber(last)
          \/ \E k \in 1..(Len(last) - 1) :
                /\ IsNumber(Prefix(last, k))
                /\ last[k + 1] \in {"beta", "rc"}
                /\ \A j \in (k + 2)..Len(last) : IsDigit(last[j])

\* MAJOR.MINOR.PATCH, optionally followed by -beta... or -rc...
Canonical(s) ==
    LET halves == SplitN(s, "-", 2)
        core == Split(halves[1], ".")
    IN /\ Len(core) = 3
       /\ \A i \in 1..3 : IsNumber(core[i])
       /\ Len(halves) = 2 =>
             /\ halves[2] # <<>>
             /\ halves[2][1] \in {"beta", "rc"}
             /\ \A j \in 2..Len(halves[2]) : IsDigit(halves[2][j])

\* C11: every retained tag of one, two or three numeric sections, with or
\* without a beta or rc marker, is normalized to the canonical shape
\* MAJOR.MINOR.PATCH[-beta...|-rc...] and the semantic-version parse of the
\* normalized form succeeds; this includes a one-section tag with a marker,
\* such as 1beta1.
C11_NormalizeParses ==
    vpc \in {"sort", "collect", "returned"} =>
        \A i \in 1..Len(RetainedTags(b)) :
            LET tag == RetainedTags(b)[i]
            IN IsVersionTag(tag) =>
                  /\ Canonical(Normalize(tag))
                  /\ Parses(Normalize(tag))
                  /\ Normalize(tag) \in DOMAIN tmp

\* ------------------------------------------------------------------ C12
\* The line has exactly two fields and its second field carries the marker.
YieldsTag(line) ==
    /\ Len(Fields(line)) = 2
    /\ Contains(Fields(line)[2], Marker)

\* The normalized tags of the lines that yield a tag, in the order of the lines.
RECURSIVE YieldedVersions(_)
YieldedVersions(lines) ==
    IF lines = <<>> THEN <<>>
    ELSE IF YieldsTag(Head(lines))
    THEN <<Normalize(ReplaceAll(Fields(Head(lines))[2], Marker, <<>>))>>
             \o YieldedVersions(Tail(lines))
    ELSE YieldedVersions(Tail(lines))

\* C12: a line yields a tag exactly when it has two white-space separated
\* fields and its second field, the ref name, carries the marker
\* refs/tags/go; the tag is the ref name without the marker; every other
\* line (a branch ref, a wrong number of fields) is skipped and the scan
\* does not fail.
C12_YieldsIffRefNameMarked ==
    /\ vpc \notin {"failed", "crashed"}
    /\ vpc = "sort" => sortVersions = YieldedVersions(b)

\* ------------------------------------------------------------------ C13
\* The archive the call unpacked: the cache file is not touched after the
\* copy.
Unpacked == Decode(cacheFile).entries
Finished == extracted /\ pc \in {"done", "failed"} /\ Decode(cacheFile).ok

UnderRoot(e) == Len(e.name) >= 2 /\ e.name[1] = "go"
RegularFiles(es) == {es[i] : i \in {j \in 1..Len(es) : ~es[j].isDir}}

\* C13: an archive whose entries are the regular files go/bin/tool and
\* go/README is extracted with success, giving dest/bin/tool and dest/README
\* and no dest/go/bin/tool; and after any successful extraction every
\* regular-file entry go/P is at dest/P with the content of the entry,
\* whether or not the archive has directory entries for the parents of P.
C13_RootStripped ==
    Finished =>
        /\ Unpacked = <<File(<<"go", "bin", "tool">>, "t"), File(<<"go", "README">>, "r")>>
              => /\ pc = "done"
                 /\ [path |-> <<"bin", "tool">>, data |-> "t"] \in dest.files
                 /\ [path |-> <<"README">>, data |-> "r"] \in dest.files
                 /\ <<"go", "bin", "tool">> \notin FilePaths(dest)
        /\ pc = "done" =>
              \A e \in RegularFiles(Unpacked) :
                  UnderRoot(e) => [path |-> Tail(e.name), data |-> e.data] \in dest.files

\* ------------------------------------------------------------------ C14
\* The paths an entry accounts for: its own and those of its parents.
Accounted(es) ==
    UNION {Parents(StripRoot(es[i])) \cup {StripRoot(es[i])} : i \in 1..Len(es)}

\* C14: after a successful install the destination holds what the entries of
\* the archive produce and nothing that was there before the call, so the
\* result of installing over an earlier install is the result of installing
\* into an absent directory.
C14_OnlyArchiveContent ==
    (Finished /\ pc = "done") =>
        /\ \A f \in dest.files :
              \E e \in RegularFiles(Unpacked) : f.path = StripRoot(e) /\ f.data = e.data
        /\ dest.dirs \subseteq Accounted(Unpacked)
        /\ dest = unpackFn(NoTree, cacheFile).tree

\* ------------------------------------------------------------------ C15
EmptyDir == [dirs |-> {<<>>}, files |-> {}]

\* C15: installing a verified archive without entries succeeds, and
\* afterwards the destination directory exists and is empty.
C15_EmptyArchive ==
    (Finished /\ Unpacked = <<>>) => (pc = "done" /\ dest = EmptyDir)

\* ------------------------------------------------------------------ C16
BeforeSidecar == {"newrequest", "transport", "status", "atoi", "create", "write", "read"}
BeforeRemoval == BeforeSidecar \cup {"shatransport", "shastatus", "sharead", "mismatch"}

\* C16: nothing is tried twice and the first failure ends the call: within a
\* call the archive and its .sha256 are requested at most once each (the
\* listing at most once within a call of getAllGoVersion), and after the
\* failure of a step the call ends with that error and performs no later
\* step: no request, no removal of the destination, no extraction.
C16_NoRetryFailFast ==
    /\ reqs.archive <= 1
    /\ reqs.sha <= 1
    /\ vlog.reqs <= 1
    /\ pc = "failed" =>
          /\ err.kind = "newrequest" => reqs.archive = 0
          /\ err.kind \in BeforeSidecar => reqs.sha = 0
          /\ err.kind \in BeforeRemoval => (~extracted /\ dest = atEntry.dest)
    /\ "RemoveAll" \in ignored => (pc = "failed" /\ err.kind = "removeall")

\* ------------------------------------------------------------------ C17
IndexOf(s, x) == CHOOSE i \in 1..Len(s) : s[i] = x
Once(s, x) == Count(s, x) = 1

\* Two tags of the listing whose normalized versions compare equal; each is
\* on one line only and the normalized forms differ, so that each keeps its
\* own entry of tmp.
Tie(x, y) ==
    /\ Once(RetainedTags(b), x)
    /\ Once(RetainedTags(b), y)
    /\ Normalize(x) # Normalize(y)
    /\ Compare(Make(Normalize(x)), Make(Normalize(y))) = 0

\* C17: the sort is stable: two retained tags whose normalized versions
\* compare equal, among them the tags whose normalized form does not parse,
\* are returned in the order of their lines.
C17_Stable ==
    vpc = "returned" =>
        \A i, j \in 1..Len(RetainedTags(b)) :
            LET x == RetainedTags(b)[i]
                y == RetainedTags(b)[j]
            IN (i < j /\ Tie(x, y)) =>
                  /\ Once(versions, x)
                  /\ Once(versions, y)
                  /\ IndexOf(versions, x) < IndexOf(versions, y)

\* ------------------------------------------------------------------ C18
\* The name with one leading go/ taken off, when it has one.
WithoutOneRoot(name) ==
    IF Len(name) >= 2 /\ name[1] = "go" THEN Tail(name) ELSE name

\* C18: one leading root segment is stripped when there is one, and nothing
\* else: after a successful extraction the entry go/go/x is the file
\* dest/go/x and not dest/x, and an entry whose name does not begin with go/
\* is written at dest joined with its name as it is.
C18_OneRootSegment ==
    (Finished /\ pc = "done") =>
        \A e \in RegularFiles(Unpacked) :
            /\ [path |-> WithoutOneRoot(e.name), data |-> e.data] \in dest.files
            /\ e.name = <<"go", "go", "x">> =>
                  (<<"go", "x">> \in FilePaths(dest) /\ <<"x">> \notin FilePaths(dest))
            /\ e.name[1] # "go" => e.name \in FilePaths(dest)

C18_Witness ==
    /\ pc = "done"
    /\ extracted
    /\ File(<<"go", "go", "x">>, "x") \in RegularFiles(Unpacked)
    /\ File(<<"misc", "y">>, "y") \in RegularFiles(Unpacked)
    /\ [path |-> <<"go", "x">>, data |-> "x"] \in dest.files
    /\ [path |-> <<"misc", "y">>, data |-> "y"] \in dest.files

\* ------------------------------------------------------------------ C19
BeforeCacheFile == {"newrequest", "transport", "status", "atoi"}

\* C19: the destination is removed only after the digest comparison has
\* succeeded: when the call fails at an earlier step (request error, status
\* above 299, Content-Length missing or not a number, cache file not created,
\* stream error, failure of the .sha256 request, digest mismatch) the
\* destination is as it was when the call began; and when the failure is a
\* request error, a status above 299 or a bad Content-Length, the archive
\* file cached before is as it was, too.
C19_RemovalAfterVerify ==
    /\ ~extracted => dest = atEntry.dest
    /\ (pc = "failed" /\ err.kind \in BeforeRemoval) => dest = atEntry.dest
    /\ (pc = "failed" /\ err.kind \in BeforeCacheFile) => cacheFile = atEntry.cacheFile

C19_Witness ==
    /\ pc = "failed"
    /\ err.kind = "mismatch"
    /\ atEntry.dest = StaleTree
    /\ dest = StaleTree

====
